---- MODULE Spec2Model ----
(***************************************************************************)
(* Model of fastchat/serve/gradio_web_server.py: one browser session of    *)
(* the single-model chat UI.  The handlers add_text, regenerate,           *)
(* clear_history and the vote handlers are one action each; bot_response   *)
(* is a generator, modelled as one action per segment between two yields.  *)
(* State objects live in a heap and are passed by reference, as the Python *)
(* objects are: the gr.State slot of the session holds a reference, and so *)
(* does every running bot_response.                                        *)
(*                                                                         *)
(* Texts are sequences of one-character strings; the fixed messages of     *)
(* fastchat.constants are sequences of one token each.                     *)
(*                                                                         *)
(* Four parts stand alone, each with its own specification:                *)
(* get_model_list (SpecModels), the log file as two handlers append to it  *)
(* (SpecLog), the registry rebuilt by load_demo while a bot_response       *)
(* resolves its backend (SpecReload), and get_ip (SpecIp).                 *)
(***************************************************************************)
EXTENDS Integers, Sequences, FiniteSets, TLC

\* ------------------------------------------------------------------ bounds
\* Number of UI events (submit, send, regenerate, clear, selector change,
\* vote) one behaviour holds.
MaxEvents == 3
\* Number of successful deltas one stream delivers at most.
MaxDeltas == 1
\* fastchat.constants, scaled: turns per conversation and characters per
\* user message.
CONVERSATION_TURN_LIMIT == 2
INPUT_CHAR_LEN_LIMIT == 1
\* bot_response generators of the session that run at once.
MaxRunning == 1

\* ------------------------------------------------------- fixed messages
MODERATION_MSG == <<"MODERATION_MSG">>
CONVERSATION_LIMIT_MSG == <<"CONVERSATION_LIMIT_MSG">>
RATE_LIMIT_MSG == <<"RATE_LIMIT_MSG">>
SERVER_ERROR_MSG == <<"SERVER_ERROR_MSG">>
GRADIO_REQUEST_ERROR == "50003"
GRADIO_STREAM_UNKNOWN_ERROR == "50004"
\* The Python None as a message content.
None == <<"None">>
\* html_code, the marker written before the first event, and the cursor
\* (U+258C) appended to every delta.
html_code == <<" ", "<span class=\"cursor\"></span>", " ">>
CURSOR == "|"

\* ------------------------------------------------------------ inputs
\* Texts the user types: empty, short, and longer than the cut-off.
Texts == {<<>>, <<"a">>, <<"a", "b">>}
\* Texts of stream events (the output so far), with whitespace around.
StreamTexts == {<<" ", "H", "i", " ">>}
\* error_code values a backend reports (nonzero).
BackendErrorCodes == {"50002"}
\* Outcomes of is_limit_reached: None (monitor unreachable), not reached,
\* reached.
\* What the request of is_limit_reached to the monitor can come to: no
\* connection, no answer within the timeout, an answer that is no JSON, a
\* verdict.
MonitorOutcomes == {"unreachable", "timeout", "bad_json", "not_reached", "reached"}
\* is_limit_reached: the decoded answer, None after any exception.
is_limit_reached(m) ==
    CASE m = "reached" -> "reached"
      [] m = "not_reached" -> "ok"
      [] OTHER -> "none"
OracleOutcomes == {is_limit_reached(m) : m \in MonitorOutcomes}
ORACLE_REASON == <<"reason">>
\* Outcomes of POST /get_worker_address: an address, "", or the request
\* raising.
DiscoveryOutcomes == {"addr", "empty", "raise"}

\* The model names of the selector.  "vicuna" is served by a worker; the
\* other two are entries of api_endpoint_info.
Models == {"vicuna", "gpt-plain", "gpt-browsing"}
\* api_endpoint_info: the entries loaded from the register-api-endpoint
\* file.  "gpt-plain" has no custom_system_prompt key.
api_endpoint_info ==
    [m \in {"gpt-plain", "gpt-browsing"} |->
        IF m = "gpt-browsing"
        THEN [anony_only |-> FALSE, has_custom |-> TRUE, custom_system_prompt |-> TRUE]
        ELSE [anony_only |-> FALSE, has_custom |-> FALSE, custom_system_prompt |-> FALSE]]

\* `"browsing" in model_name`
ContainsBrowsing(model_name) == model_name \in {"gpt-browsing"}

\* The listeners that chain bot_response: textbox.submit, send_btn.click,
\* regenerate_btn.click.
Listeners == {"submit", "send", "regen"}
Buttons == {"upvote", "downvote", "flag", "regenerate", "clear"}
VoteTypes == {"upvote", "downvote", "flag"}

\* ------------------------------------------------------------ text helpers
Min(a, b) == IF a < b THEN a ELSE b

\* The cut-off left out.
PrefixWhole(text, n) == text

\* text[:n]
Prefix(text, n) == SubSeq(text, 1, Min(n, Len(text)))

IsSpace(c) == c \in {" ", "\n"}

RECURSIVE LStrip(_)
LStrip(t) == IF t # <<>> /\ IsSpace(Head(t)) THEN LStrip(Tail(t)) ELSE t

RECURSIVE RStrip(_)
RStrip(t) ==
    IF t # <<>> /\ IsSpace(t[Len(t)]) THEN RStrip(SubSeq(t, 1, Len(t) - 1)) ELSE t

\* The text as it came, blanks kept.
StripNone(t) == t

\* str.strip()
Strip(t) == RStrip(LStrip(t))

\* ------------------------------------------------------------ Conversation
\* get_conversation_template(model_name): the template of the model.  The
\* worker model's template carries one frozen exemplar turn (offset 2).
TemplateMessages(model_name) ==
    IF model_name = "vicuna"
    THEN << [role |-> "user", content |-> <<"q">>],
            [role |-> "assistant", content |-> <<"r">>] >>
    ELSE << >>

TemplateSystem(model_name) == <<"SYS">>

\* Conversation.append_message
AppendMessage(messages, role, content) ==
    Append(messages, [role |-> role, content |-> content])

\* Conversation.update_last_message: messages[-1][1] = content.  Only
\* defined on a non-empty list (IndexError otherwise).
UpdateLast(messages, content) ==
    [messages EXCEPT ![Len(messages)].content = content]

\* Conversation.to_gradio_chatbot: the [user, assistant] pairs of
\* messages[offset:].
RECURSIVE Pairs(_)
Pairs(ms) ==
    IF ms = <<>> THEN <<>>
    ELSE IF Len(ms) = 1 THEN << <<ms[1].content, None>> >>
    ELSE << <<ms[1].content, ms[2].content>> >> \o Pairs(SubSeq(ms, 3, Len(ms)))

ToGradioChatbot(s) == Pairs(SubSeq(s.messages, s.offset + 1, Len(s.messages)))

\* ------------------------------------------------------------ State
\* State.__init__
NewState(model_name, conv_id) ==
    [ messages |-> TemplateMessages(model_name),
      offset |-> Len(TemplateMessages(model_name)),
      system_message |-> TemplateSystem(model_name),
      conv_id |-> conv_id,
      skip_next |-> FALSE,
      model_name |-> model_name,
      ans_models |-> <<>>,
      router_outputs |-> <<>>,
      has_csam_image |-> FALSE,
      regen_support |-> ~ContainsBrowsing(model_name) ]

\* The turns of s whose placeholder holds the rate-limit message.
RateLimitedTurns(s) ==
    Cardinality({i \in (s.offset + 1)..Len(s.messages) :
                    s.messages[i].content = RATE_LIMIT_MSG \o <<"\n\n">> \o ORACLE_REASON})

\* The count with the rate-limited turns left out.
CountedTurnsDispatched(s) ==
    ((Len(s.messages) - s.offset) \div 2) - RateLimitedTurns(s)

\* (len(state.conv.messages) - state.conv.offset) // 2
CountedTurns(s) == (Len(s.messages) - s.offset) \div 2

\* state.dict(): the snapshot a TranscriptRecord holds.
StateDict(s) ==
    [ conv_id |-> s.conv_id, model_name |-> s.model_name,
      system_message |-> s.system_message, messages |-> s.messages,
      offset |-> s.offset, ans_models |-> s.ans_models,
      router_outputs |-> s.router_outputs ]

\* ------------------------------------------------------------ variables
VARIABLES
    heap,       \* the State objects ever created, by reference (index)
    ui,         \* the session's components: gr.State slot, chatbot, textbox,
                \* model selector, interactivity of the textbox, of the
                \* Send button and of the five buttons of btn_list, and
                \* whether the client is still connected
    procs,      \* per listener: the chain add_text/regenerate -> bot_response
    log,        \* the conversation log file: one record per line
    nev,        \* UI events so far
    accepted,   \* per State object: user turns add_text has appended
    registry,   \* one call of get_model_list: its inputs and what it returns
    sink        \* the log file character by character, and its writers

vars == <<heap, ui, procs, log, nev, accepted, registry, sink>>

\* The variables of the session, and those of the stand-alone parts.
others == <<registry, sink>>

\* The components' interactivity after an update with no_change_btn,
\* disable_btn, enable_btn, or the error pattern (disable x3, enable x2).
ApplyBtn(btn, kind) ==
    CASE kind = "no_change" -> btn
      [] kind = "disable" -> [b \in Buttons |-> FALSE]
      [] kind = "enable" -> [b \in Buttons |-> TRUE]
      [] kind = "error" -> [b \in Buttons |-> b \in {"regenerate", "clear"}]

IdleProc ==
    [ pc |-> "idle", trigger |-> "none", st |-> 0, first |-> TRUE,
      ndeltas |-> 0, data_text |-> <<>> ]

\* A chain whose first handler has returned: bot_response is queued.
ThenProc(trigger) == [IdleProc EXCEPT !.pc = "then", !.trigger = trigger]

Init ==
    /\ heap = <<>>
    /\ \E m \in Models :
          ui = [ state |-> 0, chatbot |-> <<>>, textbox |-> <<>>,
                 model_selector |-> m,
                 textbox_interactive |-> TRUE,
                 send_interactive |-> TRUE,
                 btn |-> [b \in Buttons |-> FALSE],
                 connected |-> TRUE ]
    /\ procs = [l \in Listeners |-> IdleProc]
    /\ log = <<>>
    /\ nev = 0
    /\ accepted = <<>>
    /\ registry = <<>>
    /\ sink = <<>>

\* ------------------------------------------------------------ add_text
\* The test with < in place of <=: an empty text passes it.
EmptyInputStrict(text) == Len(text) < 0

\* len(text) <= 0
EmptyInput(text) == Len(text) <= 0

\* The substitution left out: the flagged text is kept.
ModeratedTextKept(text, flagged) == text

\* if flagged: text = MODERATION_MSG
ModeratedText(text, flagged) == IF flagged THEN MODERATION_MSG ELSE text

\* The test with > in place of >=: one turn more is let through.
LimitReachedStrict(s) == CountedTurns(s) > CONVERSATION_TURN_LIMIT

\* (len(messages) - offset) // 2 >= CONVERSATION_TURN_LIMIT
LimitReached(s) == CountedTurns(s) >= CONVERSATION_TURN_LIMIT

\* add_text with the flag latched on a flagged text, which the code
\* does not do.
add_text_latching(s, text, flagged) ==
    IF EmptyInput(text)
    THEN [ state |-> [s EXCEPT !.skip_next = TRUE], textbox |-> <<>>,
           btn |-> "no_change", outcome |-> "empty" ]
    ELSE LET text1 == ModeratedText(text, flagged)
             s1 == [s EXCEPT !.has_csam_image = @ \/ flagged]
         IN
         IF LimitReached(s1)
         THEN [ state |-> [s1 EXCEPT !.skip_next = TRUE],
                textbox |-> CONVERSATION_LIMIT_MSG,
                btn |-> "no_change", outcome |-> "limit" ]
         ELSE LET text2 == Prefix(text1, INPUT_CHAR_LEN_LIMIT)
                  m1 == AppendMessage(s1.messages, "user", text2)
                  m2 == AppendMessage(m1, "assistant", None)
              IN [ state |-> [s1 EXCEPT !.messages = m2], textbox |-> <<>>,
                   btn |-> "disable",
                   outcome |-> IF flagged THEN "moderated" ELSE "accepted" ]

\* add_text on the State s (already created when the slot held None); the
\* moderation verdict is an input.  Returns the State, the textbox value,
\* the button update and which return statement was taken.
add_text(s, text, flagged) ==
    IF EmptyInput(text)
    THEN [ state |-> [s EXCEPT !.skip_next = TRUE], textbox |-> <<>>,
           btn |-> "no_change", outcome |-> "empty" ]
    ELSE LET text1 == ModeratedText(text, flagged) IN
         IF LimitReached(s)
         THEN [ state |-> [s EXCEPT !.skip_next = TRUE],
                textbox |-> CONVERSATION_LIMIT_MSG,
                btn |-> "no_change", outcome |-> "limit" ]
         ELSE LET text2 == Prefix(text1, INPUT_CHAR_LEN_LIMIT)
                  m1 == AppendMessage(s.messages, "user", text2)
                  m2 == AppendMessage(m1, "assistant", None)
              IN [ state |-> [s EXCEPT !.messages = m2], textbox |-> <<>>,
                   btn |-> "disable",
                   outcome |-> IF flagged THEN "moderated" ELSE "accepted" ]

\* textbox.submit / send_btn.click: add_text, then bot_response is queued.
AddText(l, text, flagged) ==
    /\ l \in {"submit", "send"}
    /\ ui.connected
    /\ l = "submit" => ui.textbox_interactive
    /\ l = "send" => ui.send_interactive
    /\ procs[l].pc = "idle"
    \* The two listeners are wired alike: Send is taken while the textbox
    \* chain is in flight (the other order is this one with the names
    \* exchanged).
    /\ l = "send" => procs["submit"].pc # "idle"
    /\ nev < MaxEvents
    /\ LET fresh == ui.state = 0
           id == IF fresh THEN Len(heap) + 1 ELSE ui.state
           s0 == IF fresh THEN NewState(ui.model_selector, id) ELSE heap[id]
           r == add_text(s0, text, flagged)
           took == r.outcome \in {"accepted", "moderated"}
       IN /\ heap' = IF fresh THEN Append(heap, r.state)
                      ELSE [heap EXCEPT ![id] = r.state]
          /\ accepted' = IF fresh THEN Append(accepted, IF took THEN 1 ELSE 0)
                         ELSE [accepted EXCEPT ![id] = @ + (IF took THEN 1 ELSE 0)]
          /\ ui' = [ui EXCEPT !.state = id,
                              !.chatbot = ToGradioChatbot(r.state),
                              !.textbox = r.textbox,
                              !.btn = ApplyBtn(@, r.btn)]
          /\ procs' = [procs EXCEPT ![l] = ThenProc(r.outcome)]
    /\ nev' = nev + 1
    /\ UNCHANGED <<log, others>>

\* regenerate with the last message removed in place of reset.
regenerate_popping(s) ==
    IF ~s.regen_support
    THEN [ state |-> [s EXCEPT !.skip_next = TRUE], btn |-> "no_change",
           outcome |-> "regen_noop" ]
    ELSE [ state |-> [s EXCEPT !.messages = SubSeq(@, 1, Len(@) - 1)],
           btn |-> "disable", outcome |-> "regen" ]

\* ------------------------------------------------------------ regenerate
\* regenerate without the regen_support test.
regenerate_unguarded(s) ==
    [ state |-> [s EXCEPT !.messages = UpdateLast(@, None)],
      btn |-> "disable", outcome |-> "regen" ]

regenerate(s) ==
    IF ~s.regen_support
    THEN [ state |-> [s EXCEPT !.skip_next = TRUE], btn |-> "no_change",
           outcome |-> "regen_noop" ]
    ELSE [ state |-> [s EXCEPT !.messages = UpdateLast(@, None)],
           btn |-> "disable", outcome |-> "regen" ]

\* regenerate_btn.click: regenerate, then bot_response is queued.  The
\* handler raises on a None state or an empty message list; .then runs the
\* chained handler all the same.
Regenerate ==
    /\ ui.connected
    /\ ui.btn["regenerate"]
    /\ procs["regen"].pc = "idle"
    /\ nev < MaxEvents
    /\ IF ui.state = 0 \/ (heap[ui.state].regen_support /\ heap[ui.state].messages = <<>>)
       THEN /\ procs' = [procs EXCEPT !["regen"] = ThenProc("raised")]
            /\ UNCHANGED <<heap, ui>>
       ELSE LET r == regenerate(heap[ui.state]) IN
            /\ heap' = [heap EXCEPT ![ui.state] = r.state]
            /\ ui' = [ui EXCEPT !.chatbot = ToGradioChatbot(r.state),
                                !.textbox = <<>>,
                                !.btn = ApplyBtn(@, r.btn)]
            /\ procs' = [procs EXCEPT !["regen"] = ThenProc(r.outcome)]
    /\ nev' = nev + 1
    /\ UNCHANGED <<log, accepted, others>>

\* ------------------------------------------------------------ clear_history
\* The outputs of clear_history: state None, empty chatbot, empty textbox,
\* the five buttons disabled.
clear_history(u) ==
    [u EXCEPT !.state = 0, !.chatbot = <<>>, !.textbox = <<>>,
              !.btn = ApplyBtn(@, "disable")]

\* clear_btn.click
ClearClick ==
    /\ ui.connected
    /\ ui.btn["clear"]
    /\ nev < MaxEvents
    /\ ui' = clear_history(ui)
    /\ nev' = nev + 1
    /\ UNCHANGED <<heap, procs, log, accepted, others>>

\* model_selector.change: the selector is never disabled.
ModelChange(m) ==
    /\ ui.connected
    /\ m # ui.model_selector
    /\ nev < MaxEvents
    /\ ui' = clear_history([ui EXCEPT !.model_selector = m])
    /\ nev' = nev + 1
    /\ UNCHANGED <<heap, procs, log, accepted, others>>

\* ------------------------------------------------------------ votes
\* The record with the type of a turn record in place of the vote kind.
vote_last_response_chat(s, vote_type, model_selector) ==
    [type |-> "chat", model |-> model_selector, state |-> StateDict(s)]

\* vote_last_response: one record appended to the log file.
vote_last_response(s, vote_type, model_selector) ==
    [type |-> vote_type, model |-> model_selector, state |-> StateDict(s)]

\* upvote_btn/downvote_btn/flag_btn.click; state.dict() raises on None.
Vote(vote_type) ==
    /\ ui.connected
    /\ ui.btn[vote_type]
    /\ nev < MaxEvents
    /\ IF ui.state = 0
       THEN UNCHANGED <<ui, log>>
       ELSE /\ log' = Append(log, vote_last_response(heap[ui.state], vote_type,
                                                     ui.model_selector))
            /\ ui' = [ui EXCEPT !.textbox = <<>>,
                                !.btn = [b \in Buttons |->
                                           IF b \in VoteTypes THEN FALSE ELSE @[b]]]
    /\ nev' = nev + 1
    /\ UNCHANGED <<heap, procs, accepted, others>>

\* ------------------------------------------------------------ bot_response
\* The message without the error code.
BackendErrorOutputUncoded(text, code) ==
    SERVER_ERROR_MSG \o <<"\n\n">> \o text

\* f"{SERVER_ERROR_MSG}\n\n" + text + f"\n\n(error_code: {code})"
BackendErrorOutput(text, code) ==
    SERVER_ERROR_MSG \o <<"\n\n">> \o text \o <<"\n\n", "(error_code: ", code, ")">>

\* The message with the code left out.
ExceptionOutputBare(code) == SERVER_ERROR_MSG \o <<"\n\n", "(", "e", ")">>

\* f"{SERVER_ERROR_MSG}\n\n(error_code: {code}, {e})"
ExceptionOutput(code) ==
    SERVER_ERROR_MSG \o <<"\n\n", "(error_code: ", code, ", ", "e", ")">>

\* The lookup with the default True.
CustomSystemPromptDefaultTrue(d) ==
    IF d.has_custom THEN d.custom_system_prompt ELSE TRUE

\* model_api_dict.get("custom_system_prompt", False)
CustomSystemPrompt(d) == IF d.has_custom THEN d.custom_system_prompt ELSE FALSE

\* The test left out: an empty address is used as it is.
NoWorkerIgnored(worker_addr) == FALSE

\* worker_addr == ""
NoWorker(worker_addr) == worker_addr = "empty"

\* What the backend request carries: the system message and the contents
\* of the messages, as they are when the request is built.
PromptOf(system_message, messages) ==
    <<system_message>> \o [i \in 1..Len(messages) |-> messages[i].content]

\* The answer of the oracle taken as a verdict unless it says "not reached".
RateLimitedUnlessOk(ret) == ret \notin {"ok", "off"}

\* apply_rate_limit and ret is not None and ret["is_limit_reached"];
\* ret = "off" stands for apply_rate_limit = False (no request is made).
RateLimited(ret) == ret = "reached"

\* The message without the reason of the oracle.
RateLimitOutputBare(reason) == RATE_LIMIT_MSG

\* RATE_LIMIT_MSG + "\n\n" + ret["reason"]
RateLimitOutput(reason) == RATE_LIMIT_MSG \o <<"\n\n">> \o reason

\* The first segment of bot_response, up to its first yield, on the State s:
\* the skip_next test, the rate-limit oracle (outcome rl), the lookup in
\* api_endpoint_info, the worker address request (outcome disc), the
\* typing marker.  raised: the segment ended in an exception and yielded
\* nothing.  oracle, discovery: requests made to the two services.
BotStartResult(s, rl, disc) ==
    LET base == [ state |-> s, raised |-> FALSE, btn |-> "no_change",
                  pc |-> "idle", outcome |-> "skip", oracle |-> 0,
                  discovery |-> 0, prompt |-> <<>> ]
        empty == s.messages = <<>>
        asked == IF rl = "off" THEN 0 ELSE 1
    IN
    IF s.skip_next
    THEN [base EXCEPT !.state = [s EXCEPT !.skip_next = FALSE]]
    ELSE IF RateLimited(rl)
    THEN IF empty
         THEN [base EXCEPT !.raised = TRUE, !.outcome = "raised", !.oracle = asked]
         ELSE [base EXCEPT
                 !.state = [s EXCEPT !.messages =
                     UpdateLast(@, RateLimitOutput(ORACLE_REASON))],
                 !.outcome = "ratelimit", !.oracle = asked]
    ELSE IF s.model_name \notin DOMAIN api_endpoint_info
    THEN \* model_api_dict is None: query the worker address
         IF disc = "raise"
         THEN [base EXCEPT !.raised = TRUE, !.outcome = "raised", !.oracle = asked,
                           !.discovery = 1]
         ELSE IF empty
         THEN [base EXCEPT !.raised = TRUE, !.outcome = "raised", !.oracle = asked,
                           !.discovery = 1]
         ELSE IF NoWorker(disc)
         THEN [base EXCEPT
                 !.state = [s EXCEPT !.messages = UpdateLast(@, SERVER_ERROR_MSG)],
                 !.btn = "error", !.outcome = "noworker", !.oracle = asked,
                 !.discovery = 1]
         ELSE [base EXCEPT
                 !.state = [s EXCEPT !.messages = UpdateLast(@, html_code)],
                 !.btn = "disable", !.pc = "stream", !.outcome = "streaming",
                 !.oracle = asked, !.discovery = 1,
                 !.prompt = PromptOf(s.system_message, s.messages)]
    ELSE \* API-based model
         LET d == api_endpoint_info[s.model_name]
             sys == IF ~CustomSystemPrompt(d) THEN <<>> ELSE s.system_message
         IN IF empty
            THEN [base EXCEPT !.state = [s EXCEPT !.system_message = sys],
                              !.raised = TRUE, !.outcome = "raised", !.oracle = asked]
            ELSE [base EXCEPT
                    !.state = [s EXCEPT !.system_message = sys,
                                        !.messages = UpdateLast(@, html_code)],
                    !.btn = "disable", !.pc = "stream", !.outcome = "streaming",
                    !.oracle = asked,
                    !.prompt = PromptOf(sys, s.messages)]

\* What one yield of bot_response writes to the session: the State
\* reference it holds, that State's transcript, the button updates.
YieldTo(u, sid, s, kind) ==
    [u EXCEPT !.state = sid, !.chatbot = ToGradioChatbot(s),
              !.btn = ApplyBtn(@, kind)]

\* bot_response starts: it receives the State the session holds now.
\* MaxRunning bounds the bot_responses that are in their streaming loop at
\* one time; a start that ends at its first yield, or raises, is never
\* held back.
BotStart(l, rl, disc) ==
    /\ procs[l].pc = "then"
    /\ \/ Cardinality({k \in Listeners : procs[k].pc \in {"stream", "final"}})
             < MaxRunning
       \/ ui.state = 0
       \/ ui.state # 0 /\ BotStartResult(heap[ui.state], rl, disc).pc = "idle"
    /\ IF ui.state = 0
       THEN \* state.skip_next on None raises
            /\ procs' = [procs EXCEPT ![l] = IdleProc]
            /\ UNCHANGED <<heap, ui>>
       ELSE LET sid == ui.state
                r == BotStartResult(heap[sid], rl, disc)
            IN /\ heap' = [heap EXCEPT ![sid] = r.state]
               /\ ui' = IF r.raised THEN ui ELSE YieldTo(ui, sid, r.state, r.btn)
               /\ procs' = [procs EXCEPT ![l] =
                     IF r.pc = "idle" THEN IdleProc
                     ELSE [@ EXCEPT !.pc = r.pc, !.st = sid]]
    /\ UNCHANGED <<log, nev, accepted, others>>

\* The events the stream iterator produces on one pull: a chunk with
\* error_code 0, a chunk with a nonzero error_code, the end of the stream,
\* a requests exception, any other exception.  payload: the chunk carries
\* ans_model and router_outputs.
StreamEvents ==
    [kind : {"delta"}, text : StreamTexts, code : {"0"}, payload : BOOLEAN]
    \cup [kind : {"error"}, text : {<<"E">>}, code : BackendErrorCodes, payload : {FALSE}]
    \cup [kind : {"end", "request_exception", "exception"}, text : {<<>>},
          code : {"0"}, payload : {FALSE}]

\* The streaming loop with the failure branches falling through to the
\* record in place of returning.
BotStreamResultLogging(s, first, data_text, ev) ==
    LET s1 == IF first /\ ev.payload
              THEN [s EXCEPT !.ans_models = Append(@, "ans"),
                             !.router_outputs = Append(@, "router")]
              ELSE s
    IN
    CASE ev.kind = "delta" ->
           [ state |-> [s1 EXCEPT !.messages = UpdateLast(@, Strip(ev.text) \o <<CURSOR>>)],
             btn |-> "disable", pc |-> "stream", outcome |-> "streaming",
             data_text |-> ev.text ]
      [] ev.kind = "error" ->
           [ state |-> [s1 EXCEPT !.messages =
                           UpdateLast(@, BackendErrorOutput(ev.text, ev.code))],
             btn |-> "error", pc |-> "final", outcome |-> "backend_error",
             data_text |-> ev.text ]
      [] ev.kind = "end" ->
           [ state |-> [s EXCEPT !.messages = UpdateLast(@, Strip(data_text))],
             btn |-> "enable", pc |-> "final", outcome |-> "completed",
             data_text |-> data_text ]
      [] ev.kind = "request_exception" ->
           [ state |-> [s EXCEPT !.messages =
                           UpdateLast(@, ExceptionOutput(GRADIO_REQUEST_ERROR))],
             btn |-> "error", pc |-> "final", outcome |-> "transport",
             data_text |-> data_text ]
      [] ev.kind = "exception" ->
           [ state |-> [s EXCEPT !.messages =
                           UpdateLast(@, ExceptionOutput(GRADIO_STREAM_UNKNOWN_ERROR))],
             btn |-> "error", pc |-> "idle", outcome |-> "unknown_error",
             data_text |-> data_text ]

\* One pass of the streaming loop on the State s, with the locals i == 0
\* (first) and data["text"] (data_text), for the event ev.
BotStreamResult(s, first, data_text, ev) ==
    LET s1 == IF first /\ ev.payload
              THEN [s EXCEPT !.ans_models = Append(@, "ans"),
                             !.router_outputs = Append(@, "router")]
              ELSE s
    IN
    CASE ev.kind = "delta" ->
           [ state |-> [s1 EXCEPT !.messages = UpdateLast(@, Strip(ev.text) \o <<CURSOR>>)],
             btn |-> "disable", pc |-> "stream", outcome |-> "streaming",
             data_text |-> ev.text ]
      [] ev.kind = "error" ->
           [ state |-> [s1 EXCEPT !.messages =
                           UpdateLast(@, BackendErrorOutput(ev.text, ev.code))],
             btn |-> "error", pc |-> "idle", outcome |-> "backend_error",
             data_text |-> ev.text ]
      [] ev.kind = "end" ->
           [ state |-> [s EXCEPT !.messages = UpdateLast(@, Strip(data_text))],
             btn |-> "enable", pc |-> "final", outcome |-> "completed",
             data_text |-> data_text ]
      [] ev.kind = "request_exception" ->
           [ state |-> [s EXCEPT !.messages =
                           UpdateLast(@, ExceptionOutput(GRADIO_REQUEST_ERROR))],
             btn |-> "error", pc |-> "idle", outcome |-> "transport",
             data_text |-> data_text ]
      [] ev.kind = "exception" ->
           [ state |-> [s EXCEPT !.messages =
                           UpdateLast(@, ExceptionOutput(GRADIO_STREAM_UNKNOWN_ERROR))],
             btn |-> "error", pc |-> "idle", outcome |-> "unknown_error",
             data_text |-> data_text ]

\* bot_response resumes in the streaming loop and runs to its next yield.
\* The request to the backend is made on the first pull.
BotStream(l, ev) ==
    /\ procs[l].pc = "stream"
    /\ ev.kind = "delta" => procs[l].ndeltas < MaxDeltas
    /\ LET p == procs[l]
           r == BotStreamResult(heap[p.st], p.first, p.data_text, ev)
       IN /\ heap' = [heap EXCEPT ![p.st] = r.state]
          /\ ui' = YieldTo(ui, p.st, r.state, r.btn)
          /\ procs' = [procs EXCEPT ![l] =
                IF r.pc = "idle" THEN IdleProc
                ELSE [@ EXCEPT !.pc = r.pc,
                               !.first = IF ev.kind = "delta" THEN FALSE ELSE @,
                               !.ndeltas = IF ev.kind = "delta" THEN @ + 1 ELSE @,
                               !.data_text = r.data_text]]
    /\ UNCHANGED <<log, nev, accepted, others>>

\* The record with the type left empty.
ChatRecordUntyped(s) == [type |-> "", model |-> s.model_name, state |-> StateDict(s)]

\* The record bot_response appends to the log file after a completed stream.
ChatRecord(s) == [type |-> "chat", model |-> s.model_name, state |-> StateDict(s)]

\* bot_response resumes after its last yield and writes the record.
BotFinal(l) ==
    /\ procs[l].pc = "final"
    /\ log' = Append(log, ChatRecord(heap[procs[l].st]))
    /\ procs' = [procs EXCEPT ![l] = IdleProc]
    /\ UNCHANGED <<heap, ui, nev, accepted, others>>

\* The disconnection as it would be with the record written in a finally
\* clause: a generator closed after its last yield still writes it.
DisconnectLogging ==
    /\ ui.connected
    /\ ui' = [ui EXCEPT !.connected = FALSE]
    /\ procs' = [l \in Listeners |-> IdleProc]
    /\ log' = IF \E l \in Listeners : procs[l].pc \in {"stream", "final"}
              THEN LET l == CHOOSE k \in Listeners : procs[k].pc \in {"stream", "final"}
                   IN Append(log, [type |-> "chat", model |-> heap[procs[l].st].model_name,
                                   state |-> StateDict(heap[procs[l].st])])
              ELSE log
    /\ UNCHANGED <<heap, nev, accepted, others>>

\* The client disconnects: every bot_response of the session suspended at
\* a yield is closed there (GeneratorExit is no Exception, so neither
\* except clause runs and nothing after the yield does), and the handlers
\* still queued are dropped.
Disconnect ==
    /\ ui.connected
    /\ ui' = [ui EXCEPT !.connected = FALSE]
    /\ procs' = [l \in Listeners |-> IdleProc]
    /\ UNCHANGED <<heap, log, nev, accepted, others>>

\* ------------------------------------------------------------ specification
Next ==
    \/ \E l \in {"submit", "send"}, text \in Texts, flagged \in BOOLEAN :
          AddText(l, text, flagged)
    \/ Regenerate
    \/ ClearClick
    \/ \E m \in Models : ModelChange(m)
    \/ \E v \in VoteTypes : Vote(v)
    \/ \E l \in Listeners, rl \in OracleOutcomes, disc \in DiscoveryOutcomes :
          BotStart(l, rl, disc)
    \/ \E l \in Listeners, ev \in StreamEvents : BotStream(l, ev)
    \/ \E l \in Listeners : BotFinal(l)
    \/ Disconnect

Spec == Init /\ [][Next]_vars

\* ------------------------------------------------------------ get_model_list
\* Model names here are sequences of characters, as the sort compares them.
\* Code points of the characters in use.
Ord(c) ==
    CASE c = "0" -> 48 [] c = "1" -> 49 [] c = "2" -> 50 [] c = "3" -> 51
      [] c = "4" -> 52 [] c = "5" -> 53 [] c = "6" -> 54 [] c = "7" -> 55
      [] c = "8" -> 56 [] c = "9" -> 57 [] c = "A" -> 65 [] c = "_" -> 95
      [] c = "a" -> 97 [] c = "b" -> 98 [] c = "c" -> 99 [] c = "d" -> 100

\* a < b on Python strings: by code point, a proper prefix first.
RECURSIVE StrLess(_, _)
StrLess(a, b) ==
    IF b = <<>> THEN FALSE
    ELSE IF a = <<>> THEN TRUE
    ELSE IF Ord(Head(a)) # Ord(Head(b)) THEN Ord(Head(a)) < Ord(Head(b))
    ELSE StrLess(Tail(a), Tail(b))

\* The decimal digits of n.
RECURSIVE Digits(_)
Digits(n) ==
    LET d == <<"0", "1", "2", "3", "4", "5", "6", "7", "8", "9">>[(n % 10) + 1]
    IN IF n < 10 THEN <<d>> ELSE Append(Digits(n \div 10), d)

\* f"{i:03d}": zero-padded to three digits, longer when i needs more.
RECURSIVE ZeroPad(_)
ZeroPad(t) == IF Len(t) >= 3 THEN t ELSE ZeroPad(<<"0">> \o t)

\* model_info of fastchat.model.model_registry: the curated table, in its
\* order of registration.
model_info == << <<"b">>, <<"a">> >>

Ranked(x) == \E i \in DOMAIN model_info : model_info[i] = x

\* The position of x in enumerate(model_info), from 0.
Rank(x) == (CHOOSE i \in DOMAIN model_info : model_info[i] = x) - 1

\* priority = {k: f"___{i:03d}" for i, k in enumerate(model_info)}
priority(x) == <<"_", "_", "_">> \o ZeroPad(Digits(Rank(x)))

\* key=lambda x: priority.get(x, x)
SortKey(x) == IF Ranked(x) THEN priority(x) ELSE x

\* list.sort(key=...): a stable sort, here by insertion.
RECURSIVE InsertByKey(_, _)
InsertByKey(sorted, x) ==
    IF sorted = <<>> THEN <<x>>
    ELSE IF StrLess(SortKey(x), SortKey(Head(sorted)))
    THEN <<x>> \o sorted
    ELSE <<Head(sorted)>> \o InsertByKey(Tail(sorted), x)

RECURSIVE SortByKey(_)
SortByKey(list) ==
    IF list = <<>> THEN <<>>
    ELSE InsertByKey(SortByKey(SubSeq(list, 1, Len(list) - 1)), list[Len(list)])

Elems(list) == {list[i] : i \in DOMAIN list}

\* The duplicates kept.
DedupeNone(list) == list

\* list(set(models)): every element once.  The order Python gives the list
\* is arbitrary; the sort that follows fixes it, the keys being distinct.
RECURSIVE Dedupe(_)
Dedupe(list) ==
    IF list = <<>> THEN <<>>
    ELSE LET rest == Dedupe(SubSeq(list, 1, Len(list) - 1))
             x == list[Len(list)]
         IN IF x \in Elems(rest) THEN rest ELSE Append(rest, x)

\* A set as a list, in some order.
RECURSIVE SetToList(_)
SetToList(S) ==
    IF S = {} THEN <<>>
    ELSE LET x == CHOOSE y \in S : TRUE IN <<x>> \o SetToList(S \ {x})

\* The names a worker can serve and the names the endpoint file can hold.
WorkerNames == {<<"a">>, <<"b">>, <<"d">>, <<"A">>}
ApiNames == {<<"c">>, <<"a">>}

\* What the controller lists: up to two names, repetitions included.
ListedModels ==
    {<<>>} \cup {<<x>> : x \in WorkerNames}
           \cup {<<x, y>> : x \in WorkerNames, y \in WorkerNames}

\* An entry of the endpoint file, with the defaults of "vision-arena" and
\* "text-arena" applied.
EndpointEntries == [anony_only : BOOLEAN, text_arena : BOOLEAN, vision_arena : BOOLEAN]

\* What json.load gives for the endpoint file.
EndpointFiles == UNION {[D -> EndpointEntries] : D \in SUBSET ApiNames}

\* api_endpoint_info = {} at import.
EmptyInfo == [x \in {} |-> TRUE]

\* The argument register_api_endpoint_file: None, or a file and what it
\* holds.
NoFile == [given |-> FALSE, entries |-> EmptyInfo]
FileArgs == {NoFile} \cup [given : {TRUE}, entries : EndpointFiles]

\* The global api_endpoint_info before the call: empty, or what an earlier
\* call loaded.
PriorInfos ==
    {EmptyInfo,
     [x \in {<<"a">>} |-> [anony_only |-> TRUE, text_arena |-> TRUE,
                           vision_arena |-> FALSE]]}

\* Outcomes of POST /refresh_all_workers: status 200, another status, the
\* request raising.
RefreshOutcomes == {"ok", "non200", "unreachable"}

ModelListArgs ==
    [controller_url : BOOLEAN, refresh : RefreshOutcomes, listed : ListedModels,
     register_api_endpoint_file : FileArgs,
     vision_arena : BOOLEAN]

\* The entries of the file that get_model_list appends for the arena.
Applicable(file, vision_arena) ==
    {m \in DOMAIN file :
        \/ vision_arena /\ file[m].vision_arena
        \/ ~vision_arena /\ file[m].text_arena}

\* get_model_list(controller_url, register_api_endpoint_file, vision_arena)
\* with the global api_endpoint_info.  raised: the call ended in an
\* exception (the request raising, or the assert on the status).
get_model_list(args, info) ==
    IF args.controller_url /\ args.refresh # "ok"
    THEN [raised |-> TRUE, visible |-> <<>>, models |-> <<>>,
          api_endpoint_info |-> info]
    ELSE LET m0 == IF args.controller_url THEN args.listed ELSE <<>>
             file == args.register_api_endpoint_file
             info1 == IF file.given THEN file.entries ELSE info
             m1 == IF file.given
                   THEN m0 \o SetToList(Applicable(file.entries, args.vision_arena))
                   ELSE m0
             m2 == Dedupe(m1)
             anony == {m \in DOMAIN info1 : info1[m].anony_only}
             visible == SelectSeq(m2, LAMBDA m : m \notin anony)
         IN [raised |-> FALSE, visible |-> SortByKey(visible),
             models |-> SortByKey(m2), api_endpoint_info |-> info1]

\* The session part of the state, idle, for the stand-alone parts.
SessionIdle ==
    /\ heap = <<>>
    /\ ui = [ state |-> 0, chatbot |-> <<>>, textbox |-> <<>>,
              model_selector |-> "vicuna",
              textbox_interactive |-> TRUE, send_interactive |-> TRUE,
              btn |-> [b \in Buttons |-> FALSE], connected |-> TRUE ]
    /\ procs = [l \in Listeners |-> IdleProc]
    /\ log = <<>>
    /\ nev = 0
    /\ accepted = <<>>

InitModels ==
    /\ SessionIdle
    /\ sink = <<>>
    /\ \E args \in ModelListArgs, info \in PriorInfos :
          registry = [pc |-> "ready", args |-> args, api_endpoint_info |-> info,
                      visible |-> <<>>, models |-> <<>>]

\* One call of get_model_list.
GetModelList ==
    /\ registry.pc = "ready"
    /\ LET r == get_model_list(registry.args, registry.api_endpoint_info) IN
       registry' = [registry EXCEPT
                      !.pc = IF r.raised THEN "raised" ELSE "returned",
                      !.api_endpoint_info = r.api_endpoint_info,
                      !.visible = r.visible, !.models = r.models]
    /\ UNCHANGED <<heap, ui, procs, log, nev, accepted, sink>>

NextModels == GetModelList

SpecModels == InitModels /\ [][NextModels]_vars

\* ------------------------------------------------------------ the log file
\* Two handlers (of two sessions) append records to the same file, each
\* with `with open(filename, "a") as fout: fout.write(json.dumps(data) +
\* "\n")`.  The file is a sequence of characters, a record's JSON text a
\* few tokens of it.
\* Records each handler thread writes in one behaviour.
MaxRecords == 2

Writers == {"w1", "w2"}
RecordTypes == {"upvote", "chat"}

\* json.dumps(data): one line without a line break in it; a turn record
\* carries gen_params, start and finish besides the fields of a vote.
JsonDumps(rec) ==
    <<"{", rec.type, rec.conv_id>>
       \o (IF rec.type = "chat" THEN <<"gen_params">> ELSE <<>>)
       \o <<"}">>

\* The write at the descriptor's own offset, as without O_APPEND: what is
\* there is overwritten.
WriteAtOffset(file, pos, bytes) ==
    SubSeq(file, 1, pos) \o bytes
       \o SubSeq(file, pos + Len(bytes) + 1, Len(file))

\* write(2) on a descriptor opened with mode "a" (O_APPEND): the bytes go
\* to the end of the file as it is at the write, whatever the offset.
AppendWrite(file, pos, bytes) == file \o bytes

IdleWriter == [pc |-> "idle", pos |-> 0, buf |-> <<>>, done |-> 0]

InitLog ==
    /\ SessionIdle
    /\ registry = <<>>
    /\ sink = [file |-> <<>>, writers |-> [w \in Writers |-> IdleWriter]]

\* open(filename, "a")
OpenLog(w) ==
    /\ sink.writers[w].pc = "idle"
    /\ sink.writers[w].done < MaxRecords
    /\ sink' = [sink EXCEPT !.writers[w].pc = "open",
                            !.writers[w].pos = Len(sink.file)]
    /\ UNCHANGED <<heap, ui, procs, log, nev, accepted, registry>>

\* fout.write(json.dumps(data) + "\n"): the text goes to the buffer of the
\* file object.
WriteLog(w, type) ==
    /\ sink.writers[w].pc = "open"
    /\ sink' = [sink EXCEPT
                  !.writers[w].pc = "buffered",
                  !.writers[w].buf =
                      JsonDumps([type |-> type, conv_id |-> w]) \o <<"\n">>]
    /\ UNCHANGED <<heap, ui, procs, log, nev, accepted, registry>>

\* The end of the with block: the buffer is flushed in one write and the
\* file closed.
CloseLog(w) ==
    /\ sink.writers[w].pc = "buffered"
    /\ sink' = [sink EXCEPT
                  !.file = AppendWrite(@, sink.writers[w].pos, sink.writers[w].buf),
                  !.writers[w] = [IdleWriter EXCEPT !.done = sink.writers[w].done + 1]]
    /\ UNCHANGED <<heap, ui, procs, log, nev, accepted, registry>>

NextLog ==
    \/ \E w \in Writers : OpenLog(w)
    \/ \E w \in Writers, type \in RecordTypes : WriteLog(w, type)
    \/ \E w \in Writers : CloseLog(w)

SpecLog == InitLog /\ [][NextLog]_vars

\* ------------------------------------------------ reload and resolution
\* load_demo in reload mode rebuilds the registry while a bot_response of
\* another session resolves its backend.  The global api_endpoint_info is
\* one name bound to one dict at a time; get_model_list rebinds it, and
\* bot_response reads it twice in one expression:
\*   api_endpoint_info[model_name] if model_name in api_endpoint_info else None
MaxReloads == 1

\* The model names a State can carry here: the API names and a worker's.
ResolvedNames == ApiNames \cup {<<"d">>}

\* The arguments load_demo passes: the controller, the endpoint file as it
\* is at that time, vision_arena=False.
ReloadArgs(file, refresh) ==
    [controller_url |-> TRUE, refresh |-> refresh, listed |-> <<>>,
     register_api_endpoint_file |-> [given |-> TRUE, entries |-> file],
     vision_arena |-> FALSE]

ReaderStart(model_name) ==
    [pc |-> "test", model_name |-> model_name, found |-> FALSE,
     tested |-> EmptyInfo, looked |-> EmptyInfo, model_api_dict |-> "None"]

\* The registry as the start-up call of get_model_list left it, and a
\* bot_response about to resolve the model_name of its State.
InitReload ==
    /\ SessionIdle
    /\ sink = <<>>
    /\ \E file \in EndpointFiles, model_name \in ResolvedNames :
          LET r == get_model_list(ReloadArgs(file, "ok"), EmptyInfo) IN
          registry = [api_endpoint_info |-> r.api_endpoint_info,
                      models |-> r.visible, reloads |-> 0,
                      reader |-> ReaderStart(model_name)]

\* load_demo with model_list_mode == "reload": get_model_list rebinds
\* api_endpoint_info to the dict loaded from the file, and load_demo
\* rebinds models; neither happens when the refresh request fails.
ReloadDemo(file, refresh) ==
    /\ registry.reloads < MaxReloads
    /\ LET r == get_model_list(ReloadArgs(file, refresh), registry.api_endpoint_info) IN
       registry' = [registry EXCEPT
                      !.api_endpoint_info = r.api_endpoint_info,
                      !.models = IF r.raised THEN @ ELSE r.visible,
                      !.reloads = @ + 1]
    /\ UNCHANGED <<heap, ui, procs, log, nev, accepted, sink>>

\* bot_response evaluates `model_name in api_endpoint_info` on the dict
\* the global is bound to now.
ResolveTest ==
    /\ registry.reader.pc = "test"
    /\ registry' = [registry EXCEPT
                      !.reader.pc = "lookup",
                      !.reader.found =
                          registry.reader.model_name \in DOMAIN registry.api_endpoint_info,
                      !.reader.tested = registry.api_endpoint_info]
    /\ UNCHANGED <<heap, ui, procs, log, nev, accepted, sink>>

\* bot_response evaluates the chosen branch: None, or
\* api_endpoint_info[model_name] on the dict the global is bound to now,
\* a KeyError when the name is not a key of it.
ResolveLookup ==
    /\ registry.reader.pc = "lookup"
    /\ LET rd == registry.reader
           info == registry.api_endpoint_info
       IN registry' = [registry EXCEPT !.reader =
            IF ~rd.found
            THEN [rd EXCEPT !.pc = "done", !.looked = rd.tested]
            ELSE IF rd.model_name \in DOMAIN info
            THEN [rd EXCEPT !.pc = "done", !.looked = info,
                            !.model_api_dict = info[rd.model_name]]
            ELSE [rd EXCEPT !.pc = "raised", !.looked = info]]
    /\ UNCHANGED <<heap, ui, procs, log, nev, accepted, sink>>

NextReload ==
    \/ \E file \in EndpointFiles, refresh \in RefreshOutcomes : ReloadDemo(file, refresh)
    \/ ResolveTest
    \/ ResolveLookup

SpecReload == InitReload /\ [][NextReload]_vars

\* ------------------------------------------------------------ get_ip
\* A request as get_ip sees it: the headers (a mapping from the names
\* present to their values) and the address of the connection.
MaxIpLen == 2

IpChars == {"1", ","}
IpTexts == UNION {[1..n -> IpChars] : n \in 0..MaxIpLen}
HeaderNames == {"cf-connecting-ip", "x-forwarded-for", "user-agent"}
Hosts == {<<"9">>, <<"8">>}
Requests ==
    [headers : UNION {[D -> IpTexts] : D \in SUBSET HeaderNames},
     client_host : Hosts]

\* str.split(","): the fields between the commas, in order.
RECURSIVE SplitComma(_, _)
SplitComma(t, field) ==
    IF t = <<>> THEN <<field>>
    ELSE IF Head(t) = "," THEN <<field>> \o SplitComma(Tail(t), <<>>)
    ELSE SplitComma(Tail(t), Append(field, Head(t)))

\* get_ip with the forwarded-for header looked at first.
get_ip_forwarded_first(request) ==
    IF "x-forwarded-for" \in DOMAIN request.headers
    THEN LET ip == request.headers["x-forwarded-for"] IN
         IF \E i \in 1..Len(ip) : ip[i] = ","
         THEN SplitComma(ip, <<>>)[1]
         ELSE ip
    ELSE IF "cf-connecting-ip" \in DOMAIN request.headers
    THEN request.headers["cf-connecting-ip"]
    ELSE request.client_host

\* get_ip(request)
get_ip(request) ==
    IF "cf-connecting-ip" \in DOMAIN request.headers
    THEN request.headers["cf-connecting-ip"]
    ELSE IF "x-forwarded-for" \in DOMAIN request.headers
    THEN LET ip == request.headers["x-forwarded-for"] IN
         IF \E i \in 1..Len(ip) : ip[i] = ","
         THEN SplitComma(ip, <<>>)[1]
         ELSE ip
    ELSE request.client_host

InitIp ==
    /\ SessionIdle
    /\ sink = <<>>
    /\ \E request \in Requests :
          registry = [pc |-> "ready", request |-> request, ip |-> <<>>]

\* One call of get_ip, as a handler makes it on its request.
GetIp ==
    /\ registry.pc = "ready"
    /\ registry' = [registry EXCEPT !.pc = "returned",
                                    !.ip = get_ip(registry.request)]
    /\ UNCHANGED <<heap, ui, procs, log, nev, accepted, sink>>

NextIp == GetIp

SpecIp == InitIp /\ [][NextIp]_vars

\* ------------------------------------------------------------ properties
\* The State add_text works on: the session's, or a new one when the slot
\* holds None.
Target == IF ui.state = 0 THEN NewState(ui.model_selector, Len(heap) + 1)
          ELSE heap[ui.state]

LastMessage(s) == s.messages[Len(s.messages)]

\* A bot_response started on the State s contacts no collaborator and
\* leaves the conversation as it is: it returns after its first yield
\* (so it never pulls from a stream and never writes a record), having
\* asked neither the oracle nor the discovery service.
SkipsDispatch(s) ==
    \A rl \in OracleOutcomes, disc \in DiscoveryOutcomes :
        LET r == BotStartResult(s, rl, disc) IN
        /\ r.pc = "idle" /\ ~r.raised
        /\ r.oracle = 0 /\ r.discovery = 0
        /\ r.state = [s EXCEPT !.skip_next = FALSE]

AddTextInputs == {"submit", "send"} \X Texts \X BOOLEAN

\* C1: the counted turns of every State equal the user turns add_text
\* accepted on it and never exceed CONVERSATION_TURN_LIMIT; an add_text with
\* non-empty text at or above the limit appends nothing, sets skip_next,
\* shows CONVERSATION_LIMIT_MSG, and the bot_response run after it contacts
\* neither the oracle, the discovery service nor a backend.
C1_Step ==
    /\ \A i \in DOMAIN heap' :
          /\ CountedTurns(heap'[i]) = accepted'[i]
          /\ CountedTurns(heap'[i]) <= CONVERSATION_TURN_LIMIT
    /\ \A in \in AddTextInputs :
          ( /\ AddText(in[1], in[2], in[3])
            /\ in[2] # <<>>
            /\ CountedTurns(Target) >= CONVERSATION_TURN_LIMIT )
          => /\ heap'[ui'.state].messages = Target.messages
             /\ heap'[ui'.state].skip_next
             /\ ui'.textbox = CONVERSATION_LIMIT_MSG
             /\ ui'.chatbot = ToGradioChatbot(Target)
             /\ SkipsDispatch(heap'[ui'.state])

C2_Step ==
    \A in \in AddTextInputs :
      ( /\ AddText(in[1], in[2], in[3])
        /\ in[2] # <<>> /\ in[3]
        /\ CountedTurns(Target) < CONVERSATION_TURN_LIMIT )
      => LET s1 == heap'[ui'.state]
             n == Len(s1.messages)
         IN /\ n = Len(Target.messages) + 2
            /\ SubSeq(s1.messages, 1, n - 2) = Target.messages
            /\ s1.messages[n - 1] = [role |-> "user", content |-> MODERATION_MSG]
            /\ s1.messages[n] = [role |-> "assistant", content |-> None]
            /\ s1.skip_next = Target.skip_next
            /\ ~Target.skip_next =>
                 \A rl \in {"none", "ok"} :
                    LET r == BotStartResult(s1, rl, "addr") IN
                    /\ r.pc = "stream"
                    /\ r.prompt[Len(r.prompt) - 1] = MODERATION_MSG
                    /\ r.prompt[Len(r.prompt) - 1] # in[2]

C2_ModerationRedacts == [][C2_Step]_vars

\* C2 witness: a flagged turn is stored redacted with its placeholder
\* pending and its bot_response queued.
C2_Witness ==
    \E l \in Listeners :
        /\ procs[l].pc = "then" /\ procs[l].trigger = "moderated"
        /\ ui.state # 0
        /\ Len(heap[ui.state].messages) >= 2
        /\ LastMessage(heap[ui.state]).content = None
        /\ heap[ui.state].messages[Len(heap[ui.state].messages) - 1].content
              = MODERATION_MSG

\* C3 (as the claim states it): a State that holds a turn moderation
\* classified unsafe has has_csam_image true.
C3_FlagSetByModeration ==
    \A i \in DOMAIN heap :
        (\E k \in DOMAIN heap[i].messages :
            heap[i].messages[k].content = MODERATION_MSG)
        => heap[i].has_csam_image

\* C3 (amended): has_csam_image is false when the State is created and no
\* add_text, bot_response, regenerate or vote changes it: text moderation
\* never sets it, also not on a turn classified unsafe.
C3_FlagNeverSet == \A i \in DOMAIN heap : ~heap[i].has_csam_image

\* C3 witness: a turn classified unsafe was stored and answered, and the
\* flag is false.
C3_Witness ==
    \E i \in DOMAIN heap :
        /\ \E k \in DOMAIN heap[i].messages :
              heap[i].messages[k].content = MODERATION_MSG
        /\ LastMessage(heap[i]).content = <<"H", "i">>
        /\ ~heap[i].has_csam_image

\* regenerate runs on a State whose model does not support regeneration.
RegenerateNoSupport ==
    /\ Regenerate
    /\ ui.state # 0
    /\ ~heap[ui.state].regen_support

\* C4 (as the claim states it): on a model without regeneration support
\* every field of the State and the transcript are the same after
\* regenerate as before it.
C4_RegenerateNoOp ==
    [][RegenerateNoSupport =>
         /\ heap'[ui.state] = heap[ui.state]
         /\ ui'.chatbot = ToGradioChatbot(heap[ui.state])]_vars

\* C4 (amended): on a model without regeneration support regenerate leaves
\* every field of the State but skip_next as it is and sets skip_next; the
\* transcript it emits is that of the unchanged conversation; the
\* bot_response run after it contacts no backend, resets skip_next and
\* changes nothing else.
C4_Step ==
    RegenerateNoSupport =>
        /\ heap'[ui.state] = [heap[ui.state] EXCEPT !.skip_next = TRUE]
        /\ ui'.state = ui.state
        /\ ui'.chatbot = ToGradioChatbot(heap[ui.state])
        /\ SkipsDispatch(heap'[ui.state])
        /\ \A rl \in OracleOutcomes, disc \in DiscoveryOutcomes :
              BotStartResult(heap'[ui.state], rl, disc).state
                 = [heap[ui.state] EXCEPT !.skip_next = FALSE]

C4_RegenerateSkips == [][C4_Step]_vars

\* C4 witness: regenerate has run on a browsing model with an answered
\* turn, and its bot_response is queued.
C4_Witness ==
    /\ procs["regen"].pc = "then" /\ procs["regen"].trigger = "regen_noop"
    /\ ui.state # 0
    /\ ~heap[ui.state].regen_support
    /\ heap[ui.state].skip_next
    /\ LastMessage(heap[ui.state]).content = <<"H", "i">>

\* bot_response starts on a worker-backed State, is neither skipped nor
\* rate-limited, and the discovery service answers with an empty address.
NoWorkerStart(l, rl) ==
    /\ BotStart(l, rl, "empty")
    /\ ui.state # 0
    /\ ~heap[ui.state].skip_next
    /\ rl # "reached"
    /\ heap[ui.state].model_name \notin DOMAIN api_endpoint_info
    /\ heap[ui.state].messages # <<>>

\* C5: when the discovery service returns an empty address for a
\* worker-backed model, bot_response makes one update (the placeholder set
\* to SERVER_ERROR_MSG, regenerate and clear enabled) and returns: it never
\* reaches the streaming loop, so no worker is asked, and no record is
\* written.
C5_Step ==
    \A l \in Listeners, rl \in OracleOutcomes :
        NoWorkerStart(l, rl) =>
            /\ procs'[l].pc = "idle"
            /\ LastMessage(heap'[ui.state]).content = SERVER_ERROR_MSG
            /\ Len(heap'[ui.state].messages) = Len(heap[ui.state].messages)
            /\ ui'.chatbot = ToGradioChatbot(heap'[ui.state])
            /\ ui'.btn = [b \in Buttons |-> b \in {"regenerate", "clear"}]
            /\ log' = log

C5_NoWorker == [][C5_Step]_vars

\* C5 witness: a turn ended with the bare SERVER_ERROR_MSG, its chain is
\* over and the log is empty.
C5_Witness ==
    /\ ui.state # 0
    /\ heap[ui.state].messages # <<>>
    /\ LastMessage(heap[ui.state]).content = SERVER_ERROR_MSG
    /\ \A l \in Listeners : procs[l].pc = "idle"
    /\ log = <<>>
    /\ ui.btn["regenerate"] /\ ~ui.btn["upvote"]

\* s is a prefix of t
IsPrefix(s, t) == Len(s) <= Len(t) /\ SubSeq(t, 1, Len(s)) = s

\* The stream of listener l raises a requests exception after it has
\* delivered at least one chunk with error_code 0.
TransportFailureAfterDelta(l) ==
    /\ BotStream(l, [kind |-> "request_exception", text |-> <<>>, code |-> "0",
                     payload |-> FALSE])
    /\ procs[l].ndeltas > 0

\* C6 (as the claim states it): after such a failure the last message still
\* holds the text of the last delta, followed by the annotation with
\* GRADIO_REQUEST_ERROR.
C6_TextKept ==
    [][\A l \in Listeners :
          TransportFailureAfterDelta(l) =>
             LET c == LastMessage(heap'[procs[l].st]).content IN
             /\ IsPrefix(Strip(procs[l].data_text), c)
             /\ \E k \in DOMAIN c : c[k] = GRADIO_REQUEST_ERROR]_vars

\* C6 (amended): after such a failure the last message is SERVER_ERROR_MSG
\* followed by the annotation with GRADIO_REQUEST_ERROR, a code no backend
\* reports; the text streamed so far is replaced by it.
C6_Step ==
    \A l \in Listeners :
        TransportFailureAfterDelta(l) =>
            LET c == LastMessage(heap'[procs[l].st]).content IN
            /\ c = <<"SERVER_ERROR_MSG", "\n\n", "(error_code: ", "50003", ", ", "e", ")">>
            /\ ~IsPrefix(Strip(procs[l].data_text), c)
            /\ GRADIO_REQUEST_ERROR \notin BackendErrorCodes
            /\ procs'[l].pc = "idle"
            /\ log' = log

C6_TextReplaced == [][C6_Step]_vars

\* C6 witness: the only turn of the session received a delta with its side
\* payload and then ended with the transport-failure message.
C6_Witness ==
    /\ nev = 1
    /\ Len(heap) = 1
    /\ heap[1].ans_models # <<>>
    /\ LastMessage(heap[1]).content = ExceptionOutput(GRADIO_REQUEST_ERROR)
    /\ \A l \in Listeners : procs[l].pc = "idle"

\* The State is of an API-based model whose entry does not set
\* custom_system_prompt to true.
StripsSystem(s) ==
    /\ s.model_name \in DOMAIN api_endpoint_info
    /\ ~( api_endpoint_info[s.model_name].has_custom
          /\ api_endpoint_info[s.model_name].custom_system_prompt )

\* C7: for an API-based model without custom_system_prompt = true, a
\* bot_response that is neither skipped nor rate-limited leaves the system
\* prompt empty, and once empty it stays empty; for an entry with
\* custom_system_prompt = true and for worker-backed models no step changes
\* the system prompt.
C7_Step ==
    /\ \A l \in Listeners, rl \in OracleOutcomes, disc \in DiscoveryOutcomes :
          ( /\ BotStart(l, rl, disc)
            /\ ui.state # 0
            /\ StripsSystem(heap[ui.state])
            /\ ~heap[ui.state].skip_next
            /\ rl # "reached" )
          => heap'[ui.state].system_message = <<>>
    /\ \A i \in DOMAIN heap :
          IF StripsSystem(heap[i])
          THEN heap[i].system_message = <<>> => heap'[i].system_message = <<>>
          ELSE heap'[i].system_message = heap[i].system_message
    /\ \A i \in DOMAIN heap' :
          (i \notin DOMAIN heap /\ ~StripsSystem(heap'[i]))
          => heap'[i].system_message = TemplateSystem(heap'[i].model_name)

C7_SystemPrompt == [][C7_Step]_vars

\* C7 witness: a State of the API-based model without the key has been
\* answered, and its system prompt, which the template set, is empty.
C7_Witness ==
    \E i \in DOMAIN heap :
          /\ StripsSystem(heap[i])
          /\ heap[i].system_message = <<>>
          /\ heap[i].messages # <<>>
          /\ LastMessage(heap[i]).content = <<"H", "i">>
          /\ TemplateSystem(heap[i].model_name) # <<>>

\* C8 (as the claim states it): while a bot_response of the session has
\* started and not yet returned, no add_text and no regenerate runs on the
\* session and no second bot_response starts.
C8_NoInterleaving ==
    [][(\E l \in Listeners : procs[l].pc \in {"stream", "final"}) =>
          /\ ~ \E in \in AddTextInputs : AddText(in[1], in[2], in[3])
          /\ ~ Regenerate
          /\ ~ \E l \in Listeners, rl \in OracleOutcomes,
                  disc \in DiscoveryOutcomes : BotStart(l, rl, disc)]_vars

\* add_text runs with empty text.
EmptyAddText(l, flagged) == AddText(l, <<>>, flagged)

\* C9: add_text with empty text sets skip_next and appends nothing; the
\* bot_response run after it emits the same transcript, asks neither the
\* oracle nor the discovery service nor a backend, and writes no record.
C9_Step ==
    /\ \A l \in {"submit", "send"}, flagged \in BOOLEAN :
          EmptyAddText(l, flagged) =>
             /\ heap'[ui'.state] = [Target EXCEPT !.skip_next = TRUE]
             /\ ui'.chatbot = ToGradioChatbot(Target)
             /\ log' = log
             /\ SkipsDispatch(heap'[ui'.state])
    /\ \A l \in Listeners, rl \in OracleOutcomes, disc \in DiscoveryOutcomes :
          ( /\ BotStart(l, rl, disc)
            /\ ui.state # 0
            /\ heap[ui.state].skip_next )
          => /\ heap'[ui.state] = [heap[ui.state] EXCEPT !.skip_next = FALSE]
             /\ ui'.chatbot = ToGradioChatbot(heap[ui.state])
             /\ ui'.btn = ui.btn
             /\ procs'[l].pc = "idle"
             /\ log' = log

C10_ClearDiscards ==
    [][/\ ui'.state = 0 => ui'.chatbot = <<>>
       /\ (ui.state = 0 /\ ui'.state # 0) =>
             \E in \in AddTextInputs : AddText(in[1], in[2], in[3])]_vars

\* C11: a vote leaves every State as it is, starts no bot_response, and
\* appends one record whose type is the vote kind and whose state is the
\* snapshot of the session's State at that moment; a vote button is enabled
\* only while the session holds a State.
C11_Step ==
    /\ \A v \in VoteTypes : ui'.btn[v] => ui'.state # 0
    /\ \A v \in VoteTypes :
          Vote(v) =>
             /\ heap' = heap
             /\ procs' = procs
             /\ log' = Append(log, [type |-> v, model |-> ui.model_selector,
                                    state |-> StateDict(heap[ui.state])])

C11_VoteFrame == [][C11_Step]_vars

\* C11 witness: a vote on an answered turn is the last record of the log.
C11_Witness ==
    /\ log # <<>>
    /\ log[Len(log)].type \in VoteTypes
    /\ ui.state # 0
    /\ log[Len(log)].state = StateDict(heap[ui.state])
    /\ LastMessage(heap[ui.state]).content = <<"H", "i">>

\* C12: when the client disconnects, the bot_response generators of the
\* session stop where they are suspended: the step writes no record and
\* changes no State, and from then on no stream event is consumed (no State
\* changes) and no record is written.
C12_Step ==
    /\ (ui.connected /\ ~ui'.connected) =>
          /\ log' = log
          /\ heap' = heap
          /\ \A l \in Listeners : procs'[l].pc = "idle"
    /\ ~ui.connected => (log' = log /\ heap' = heap /\ procs' = procs)

C12_CancelNoRecord == [][C12_Step]_vars

\* C12 witness: the client left while a delta was on display; the turn is
\* partial and the log is empty.
C12_Witness ==
    /\ ~ui.connected
    /\ ui.state # 0
    /\ heap[ui.state].messages # <<>>
    /\ LastMessage(heap[ui.state]).content = <<"H", "i", CURSOR>>
    /\ log = <<>>

\* A step of bot_response that ends the turn in one of the failures
\* NoBackendAvailable, BackendError, TransportFailure, RateLimited.
FailureStep(l) ==
    \/ \E rl \in OracleOutcomes, disc \in DiscoveryOutcomes :
          /\ BotStart(l, rl, disc)
          /\ ui.state # 0
          /\ BotStartResult(heap[ui.state], rl, disc).outcome
                \in {"ratelimit", "noworker"}
    \/ \E ev \in StreamEvents :
          /\ BotStream(l, ev)
          /\ ev.kind \in {"error", "request_exception"}

\* C13 (as the claim states it): each of the four failures ends the turn
\* with a message in the placeholder, with regenerate and clear enabled,
\* and with bot_response returned.
C13_FailureReenables ==
    [][\A l \in Listeners :
          FailureStep(l) =>
             /\ LastMessage(heap'[ui'.state]).content # None
             /\ procs'[l].pc = "idle"
             /\ ui'.btn["regenerate"] /\ ui'.btn["clear"]]_vars

\* The stream of listener l ends.
StreamEnd(l) ==
    BotStream(l, [kind |-> "end", text |-> <<>>, code |-> "0", payload |-> FALSE])

\* C14: when the stream ends, the placeholder gets the stripped text of the
\* last delta, without the cursor, and no record is written yet; when
\* bot_response resumes it appends one record of type "chat" holding the
\* snapshot of its State; a record of type "chat" is appended by that step
\* only, and a bot_response past its last yield leaves that position only
\* by writing the record or by being closed.
C14_Step ==
    /\ \A l \in Listeners :
          StreamEnd(l) =>
             LET c == LastMessage(heap'[procs[l].st]).content IN
             /\ c = Strip(procs[l].data_text)
             /\ \A k \in DOMAIN c : c[k] # CURSOR
             /\ procs'[l].pc = "final"
             /\ log' = log
    /\ \A l \in Listeners :
          BotFinal(l) =>
             /\ log' = Append(log, [type |-> "chat",
                                    model |-> heap[procs[l].st].model_name,
                                    state |-> StateDict(heap[procs[l].st])])
             /\ heap' = heap
             /\ procs'[l].pc = "idle"
    /\ (Len(log') > Len(log) /\ log'[Len(log')].type \notin VoteTypes) =>
          /\ Len(log') = Len(log) + 1
          /\ log'[Len(log')].type = "chat"
          /\ \E l \in Listeners : procs[l].pc = "final" /\ procs'[l].pc = "idle"
    /\ \A l \in Listeners :
          (procs[l].pc = "final" /\ procs'[l].pc # "final") =>
             \/ Len(log') = Len(log) + 1
             \/ ~ui'.connected

StreamFailure(l) ==
    \E ev \in StreamEvents :
        /\ ev.kind \in {"error", "request_exception"}
        /\ BotStream(l, ev)

C15_Step ==
    \A l \in Listeners :
        StreamFailure(l) =>
            LET c == LastMessage(heap'[procs[l].st]).content IN
            /\ c # <<>> /\ c[1] = "SERVER_ERROR_MSG"
            /\ ui'.btn = [b \in Buttons |-> b \in {"regenerate", "clear"}]
            /\ procs'[l].pc = "idle"
            /\ log' = log

C20_Step ==
    /\ \A in \in AddTextInputs :
          ( /\ AddText(in[1], in[2], in[3])
            /\ in[2] # <<>>
            /\ CountedTurns(Target) < CONVERSATION_TURN_LIMIT )
          => LET s1 == heap'[ui'.state]
                 u == s1.messages[Len(s1.messages) - 1]
             IN /\ u.role = "user"
                /\ Len(u.content) <= INPUT_CHAR_LEN_LIMIT
                /\ ~in[3] =>
                     u.content = IF Len(in[2]) <= INPUT_CHAR_LEN_LIMIT
                                 THEN in[2]
                                 ELSE SubSeq(in[2], 1, INPUT_CHAR_LEN_LIMIT)
    /\ \A i \in DOMAIN heap' :
          \A k \in DOMAIN heap'[i].messages :
             (k > heap'[i].offset /\ heap'[i].messages[k].role = "user")
             => Len(heap'[i].messages[k].content) <= INPUT_CHAR_LEN_LIMIT

C20_Truncation == [][C20_Step]_vars

\* C20 witness: an unflagged turn was appended whose stored text is as long
\* as the cut-off allows.
C20_Witness ==
    \E l \in Listeners :
        /\ procs[l].pc = "then" /\ procs[l].trigger = "accepted"
        /\ ui.state # 0
        /\ Len(heap[ui.state].messages[Len(heap[ui.state].messages) - 1].content)
              = INPUT_CHAR_LEN_LIMIT

\* No element twice.
NoDuplicates(list) == \A i, j \in DOMAIN list : list[i] = list[j] => i = j

\* C17: a call of get_model_list that returns gives a full list that holds
\* every name the controller listed and every applicable entry of the
\* endpoint file, each once and nothing else, and a visible list that is
\* the full list without exactly the names whose entry in
\* api_endpoint_info has anony_only set.
C17_ModelLists ==
    registry.pc = "returned" =>
        LET a == registry.args
            file == a.register_api_endpoint_file
            full == Elems(registry.models)
            visible == Elems(registry.visible)
            info == registry.api_endpoint_info
        IN /\ full = (IF a.controller_url THEN Elems(a.listed) ELSE {})
                     \cup (IF file.given
                           THEN Applicable(file.entries, a.vision_arena)
                           ELSE {})
           /\ NoDuplicates(registry.models)
           /\ NoDuplicates(registry.visible)
           /\ visible \subseteq full
           /\ visible = full \ {m \in DOMAIN info : info[m].anony_only}

\* C17 witness: the controller listed a name twice, the file holds an
\* anonymous-only entry that applies, and the call has returned.
C17_Witness ==
    /\ registry.pc = "returned"
    /\ registry.args.listed = << <<"d">>, <<"d">> >>
    /\ registry.models = << <<"c">>, <<"d">> >>
    /\ registry.visible = << <<"d">> >>

\* The order the claim gives a list: ranked names first, in rank order,
\* then the others in lexicographic order.
RankedFirst(list) ==
    \A i, j \in DOMAIN list :
        i < j =>
            /\ Ranked(list[j]) => Ranked(list[i])
            /\ (Ranked(list[i]) /\ Ranked(list[j])) => Rank(list[i]) < Rank(list[j])
            /\ (~Ranked(list[i]) /\ ~Ranked(list[j])) => StrLess(list[i], list[j])

\* C18 (as the claim states it): both lists get_model_list returns have the
\* ranked names first, in rank order, and the others after them in
\* lexicographic order.
C18_RankedFirst ==
    registry.pc = "returned" =>
        RankedFirst(registry.models) /\ RankedFirst(registry.visible)

\* C19 (as the claim states it): with the discovery service unreachable or
\* answering /refresh_all_workers with another status than 200, the call
\* still returns, with no worker model and with the applicable entries of
\* the endpoint file.
C19_FailsSoft ==
    ( /\ registry.pc # "ready"
      /\ registry.args.controller_url
      /\ registry.args.refresh # "ok" )
    => /\ registry.pc = "returned"
       /\ LET file == registry.args.register_api_endpoint_file IN
          Elems(registry.models) =
             IF file.given
             THEN Applicable(file.entries, registry.args.vision_arena)
             ELSE {}

\* The lines of a file: the pieces between line breaks, the unfinished last
\* one included.
RECURSIVE Lines(_)
Lines(file) ==
    IF file = <<>> THEN <<>>
    ELSE IF \E k \in DOMAIN file : file[k] = "\n"
    THEN LET k == CHOOSE i \in DOMAIN file :
                     file[i] = "\n" /\ \A j \in 1..(i - 1) : file[j] # "\n"
         IN <<SubSeq(file, 1, k - 1)>> \o Lines(SubSeq(file, k + 1, Len(file)))
    ELSE <<file>>

\* The JSON texts of the records the writers can write.
RecordTexts ==
    {<<"{", t, w, "}">> : t \in {"upvote"}, w \in Writers}
       \cup {<<"{", t, w, "gen_params", "}">> : t \in {"chat"}, w \in Writers}

RateLimitedStart(l, disc) ==
    /\ BotStart(l, "reached", disc)
    /\ ui.state # 0
    /\ ~heap[ui.state].skip_next
    /\ heap[ui.state].messages # <<>>

\* C21: when the oracle reports is_limit_reached, bot_response writes
\* RATE_LIMIT_MSG followed by the oracle's reason into the placeholder,
\* shows it, and returns: the discovery service is not asked, no request
\* for a backend is built, and no record is written.
C21_Step ==
    \A l \in Listeners, disc \in DiscoveryOutcomes :
        RateLimitedStart(l, disc) =>
            LET r == BotStartResult(heap[ui.state], "reached", disc) IN
            /\ LastMessage(heap'[ui.state]).content
                  = <<"RATE_LIMIT_MSG", "\n\n", "reason">>
            /\ Len(heap'[ui.state].messages) = Len(heap[ui.state].messages)
            /\ ui'.chatbot = ToGradioChatbot(heap'[ui.state])
            /\ procs'[l].pc = "idle"
            /\ r.oracle = 1 /\ r.discovery = 0 /\ r.prompt = <<>>
            /\ log' = log

C21_RateLimited == [][C21_Step]_vars

\* C21 witness: a turn ended with the rate-limit message, its chain is over
\* and the log is empty.
C21_Witness ==
    /\ ui.state # 0
    /\ heap[ui.state].messages # <<>>
    /\ LastMessage(heap[ui.state]).content = <<"RATE_LIMIT_MSG", "\n\n", "reason">>
    /\ ui.chatbot = ToGradioChatbot(heap[ui.state])
    /\ \A l \in Listeners : procs[l].pc = "idle"
    /\ log = <<>>

\* C22: is_limit_reached returns None when the monitor is unreachable,
\* times out or answers with something that raises, and a bot_response
\* that gets None does what it does with apply_rate_limit off (save that
\* the request to the monitor was made): same State, same updates, same
\* request to the discovery service, same request to the backend.
C22_Step ==
    /\ \A m \in {"unreachable", "timeout", "bad_json"} : is_limit_reached(m) = "none"
    /\ \A l \in Listeners, disc \in DiscoveryOutcomes :
          (BotStart(l, "none", disc) /\ ui.state # 0) =>
              LET r == BotStartResult(heap[ui.state], "none", disc)
                  off == BotStartResult(heap[ui.state], "off", disc)
              IN /\ [r EXCEPT !.oracle = off.oracle] = off
                 /\ r.outcome # "ratelimit"
                 /\ heap'[ui.state] = off.state
                 /\ procs'[l].pc = off.pc
                 /\ ui' = IF off.raised THEN ui
                          ELSE YieldTo(ui, ui.state, off.state, off.btn)

C22_OracleFailsOpen == [][C22_Step]_vars

\* C22 witness: a bot_response passed the oracle step and is in its
\* streaming loop for a worker-backed model.
C22_Witness ==
    \E l \in Listeners :
        /\ procs[l].pc = "stream"
        /\ procs[l].first
        /\ heap[procs[l].st].model_name \notin DOMAIN api_endpoint_info
        /\ LastMessage(heap[procs[l].st]).content = html_code

\* C23 (as the claim states it): the turns a State counts are the accepted
\* ones less the rate-limited ones.
C23_RateLimitedNotCounted ==
    \A i \in DOMAIN heap :
        CountedTurns(heap[i]) = accepted[i] - RateLimitedTurns(heap[i])

\* C23 (amended): a rate-limited turn keeps its pair of messages, so it
\* counts: the turns a State counts are all the turns add_text accepted
\* on it, the rate-limited ones among them.
C23_RateLimitedCounted ==
    \A i \in DOMAIN heap :
        /\ CountedTurns(heap[i]) = accepted[i]
        /\ RateLimitedTurns(heap[i]) <= CountedTurns(heap[i])

\* C23 witness: the State is at the turn limit and one of its turns was
\* rate-limited.
C23_Witness ==
    /\ ui.state # 0
    /\ CountedTurns(heap[ui.state]) = CONVERSATION_TURN_LIMIT
    /\ RateLimitedTurns(heap[ui.state]) >= 1
    /\ \A l \in Listeners : procs[l].pc = "idle"

\* C24 (as the claim states it): the payload is recorded once per turn,
\* a regenerated turn included: when a State has turns and each has its
\* ans_model already, the stream of a regenerated turn leaves the State
\* with no more ans_models and no more router_outputs than it has turns.
C24_PayloadOncePerTurn ==
    [][\A ev \in StreamEvents :
          ( /\ BotStream("regen", ev)
            /\ CountedTurns(heap[procs["regen"].st]) >= 1
            /\ Len(heap[procs["regen"].st].ans_models)
                  = CountedTurns(heap[procs["regen"].st]) ) =>
              LET s == heap'[procs["regen"].st] IN
              /\ Len(s.ans_models) <= CountedTurns(s)
              /\ Len(s.router_outputs) <= CountedTurns(s)]_vars

\* The stream iterator yields a chunk with a nonzero error_code.
BackendErrorEvent(l, ev) ==
    /\ ev.kind = "error"
    /\ BotStream(l, ev)

\* C25: the first chunk with a nonzero error_code ends the bot_response
\* that pulled it: the placeholder becomes SERVER_ERROR_MSG, the chunk's
\* text and its error code, the update is shown, and the handler is over
\* (nothing more is pulled, asked for or written); a handler only starts
\* again on a new event of the user.
C25_Step ==
    /\ \A l \in Listeners, ev \in StreamEvents :
          BackendErrorEvent(l, ev) =>
              /\ LastMessage(heap'[procs[l].st]).content
                    = <<"SERVER_ERROR_MSG", "\n\n">> \o ev.text
                         \o <<"\n\n", "(error_code: ", ev.code, ")">>
              /\ ui'.chatbot = ToGradioChatbot(heap'[procs[l].st])
              /\ procs'[l] = IdleProc
              /\ log' = log
    /\ \A l \in Listeners :
          (procs[l].pc = "idle" /\ procs'[l].pc # "idle") =>
              /\ procs'[l].pc = "then"
              /\ nev' = nev + 1

C25_ErrorTerminal == [][C25_Step]_vars

\* C25 witness: the session shows a turn ended with the backend's error
\* and code, regenerate and clear are enabled and no handler runs.
C25_Witness ==
    /\ ui.state # 0
    /\ heap[ui.state].messages # <<>>
    /\ LastMessage(heap[ui.state]).content
          = <<"SERVER_ERROR_MSG", "\n\n", "E", "\n\n", "(error_code: ", "50002", ")">>
    /\ ui.chatbot = ToGradioChatbot(heap[ui.state])
    /\ ui.btn = [b \in Buttons |-> b \in {"regenerate", "clear"}]
    /\ \A l \in Listeners : procs[l].pc = "idle"

\* The stream ends, by exhaustion, by an error chunk or by an exception.
TerminalEvent(l, ev) ==
    /\ ev.kind \in {"end", "error", "request_exception", "exception"}
    /\ BotStream(l, ev)

\* C26: the update bot_response makes on the terminal event of a stream
\* leaves no marker in the last message: after exhaustion the content is
\* the stripped text of the last delta (empty when there was none), after
\* an error chunk or an exception it is the error message; it is never
\* the typing marker and never ends with the cursor.
C26_Step ==
    \A l \in Listeners, ev \in StreamEvents :
        TerminalEvent(l, ev) =>
            LET c == LastMessage(heap'[procs[l].st]).content IN
            /\ c # html_code
            /\ \A i \in 1..Len(c) : c[i] \notin {CURSOR, html_code[2]}
            /\ ev.kind = "end" =>
                  c = IF procs[l].first THEN <<>> ELSE <<"H", "i">>
            /\ ev.kind = "error" =>
                  c = <<"SERVER_ERROR_MSG", "\n\n">> \o ev.text
                         \o <<"\n\n", "(error_code: ", ev.code, ")">>
            /\ ev.kind = "request_exception" =>
                  c = <<"SERVER_ERROR_MSG", "\n\n", "(error_code: ", "50003", ", ", "e", ")">>
            /\ ev.kind = "exception" =>
                  c = <<"SERVER_ERROR_MSG", "\n\n", "(error_code: ", "50004", ", ", "e", ")">>

C26_NoMarkerLeft == [][C26_Step]_vars

\* C26 witness: a stream ended without a single delta: the last message
\* is empty, all buttons are enabled and the record is about to be written.
C26_Witness ==
    \E l \in Listeners :
        /\ procs[l].pc = "final"
        /\ procs[l].first
        /\ LastMessage(heap[procs[l].st]).content = <<>>
        /\ ui.btn = [b \in Buttons |-> TRUE]

\* The State of s has alternating roles from its first message on, an
\* even number of messages after the offset, and no null content but in
\* a last message of the assistant.
WellFormed(s) ==
    /\ (Len(s.messages) - s.offset) % 2 = 0
    /\ \A i \in 1..Len(s.messages) :
          s.messages[i].role = IF i % 2 = 1 THEN "user" ELSE "assistant"
    /\ \A i \in 1..Len(s.messages) :
          s.messages[i].content = None =>
              i = Len(s.messages) /\ s.messages[i].role = "assistant"

\* C27 (as the claim states it): an add_text that runs while no handler
\* chain of the session is in progress leaves a well-formed State: even
\* length after the offset, alternating roles, at most one null content,
\* and that one in the last message.
C27_WellFormed ==
    [][\A in \in AddTextInputs :
          ( /\ AddText(in[1], in[2], in[3])
            /\ \A l \in Listeners : procs[l].pc = "idle" )
          => WellFormed(heap'[ui'.state])]_vars

\* C30 (as the claim states it): skip_next is false on the State of the
\* session whenever no handler chain is in progress.
C30_SkipOneShot ==
    ( /\ ui.connected
      /\ ui.state # 0
      /\ \A l \in Listeners : procs[l].pc = "idle" )
    => ~heap[ui.state].skip_next

\* regenerate runs on a State with messages whose model supports
\* regeneration.
RegenerateSupported ==
    /\ Regenerate
    /\ ui.state # 0
    /\ heap[ui.state].regen_support
    /\ heap[ui.state].messages # <<>>

\* C29: on a model that supports regeneration, regenerate sets the content
\* of the last message, which is the assistant's, to null and changes
\* nothing else of the State (the messages before it, their number,
\* skip_next, model_name and all other fields stay); a bot_response
\* started on the State it leaves, with skip_next unset and a backend at
\* hand, goes to the backend with the contents of those same messages.
C29_Step ==
    RegenerateSupported =>
        LET s == heap[ui.state]
            n == Len(s.messages)
            s1 == heap'[ui.state]
        IN
        /\ ui'.state = ui.state
        /\ s.messages[n].role = "assistant"
        /\ s1 = [s EXCEPT !.messages =
                    [i \in 1..n |-> IF i = n
                                    THEN [role |-> "assistant", content |-> <<"None">>]
                                    ELSE s.messages[i]]]
        /\ ui'.chatbot = ToGradioChatbot(s1)
        /\ procs'["regen"].pc = "then"
        /\ ~s.skip_next =>
              \A rl \in {"ok", "none"} :
                  LET r == BotStartResult(s1, rl, "addr") IN
                  /\ r.pc = "stream"
                  /\ Len(r.prompt) = n + 1
                  /\ r.prompt[1] = r.state.system_message
                  /\ \A i \in 1..(n - 1) : r.prompt[i + 1] = s.messages[i].content
                  /\ r.prompt[n + 1] = <<"None">>

C29_RegenerateFrame == [][C29_Step]_vars

\* C29 witness: regenerate has reset the answer of a turn on a model that
\* supports regeneration, and its bot_response is queued.
C29_Witness ==
    /\ procs["regen"].pc = "then" /\ procs["regen"].trigger = "regen"
    /\ ui.state # 0
    /\ heap[ui.state].regen_support
    /\ ~heap[ui.state].skip_next
    /\ CountedTurns(heap[ui.state]) >= 1
    /\ LastMessage(heap[ui.state]).content = None
    /\ ui.btn = [b \in Buttons |-> FALSE]

\* C28 (as the claim states it): a bot_response that resolves its backend
\* while the registry is rebuilt makes the membership test and the lookup
\* on the same snapshot of api_endpoint_info, and the resolution does not
\* fail.
C28_OneSnapshot ==
    registry.reader.pc \in {"done", "raised"} =>
        /\ registry.reader.pc = "done"
        /\ registry.reader.looked = registry.reader.tested

\* C31 (as the claim states it): a bot_response that starts on a State
\* whose last message is the null placeholder, with skip_next unset, and
\* is over at once (whatever the oracle and the discovery service did)
\* leaves that message with a content.
C31_NoPendingPlaceholder ==
    [][\A l \in Listeners, rl \in OracleOutcomes, disc \in DiscoveryOutcomes :
          ( /\ BotStart(l, rl, disc)
            /\ ui.state # 0
            /\ ~heap[ui.state].skip_next
            /\ heap[ui.state].messages # <<>>
            /\ LastMessage(heap[ui.state]).content = None
            /\ procs'[l].pc = "idle" )
          => LastMessage(heap'[ui.state]).content # None]_vars

\* The text v up to its first comma, the whole of it when it has none.
FirstField(v) ==
    LET cut == {i \in 1..Len(v) : v[i] = ","} IN
    IF cut = {} THEN v
    ELSE SubSeq(v, 1, (CHOOSE i \in cut : \A j \in cut : i <= j) - 1)

\* C32: get_ip returns the value of cf-connecting-ip when that header is
\* present; otherwise the value of x-forwarded-for up to its first comma;
\* otherwise the address of the connection; and the request with the same
\* two headers and the same address gets the same result whatever its
\* other header is, present or not.
C32_Precedence ==
    registry.pc = "returned" =>
        LET h == registry.request.headers IN
        /\ registry.ip =
              IF "cf-connecting-ip" \in DOMAIN h THEN h["cf-connecting-ip"]
              ELSE IF "x-forwarded-for" \in DOMAIN h
                   THEN FirstField(h["x-forwarded-for"])
                   ELSE registry.request.client_host
        /\ LET core == DOMAIN h \cap {"cf-connecting-ip", "x-forwarded-for"}
                host == registry.request.client_host
           IN /\ get_ip([headers |-> [n \in core |-> h[n]],
                         client_host |-> host]) = registry.ip
              /\ \A v \in IpTexts :
                    get_ip([headers |->
                              [n \in core \cup {"user-agent"} |->
                                  IF n = "user-agent" THEN v ELSE h[n]],
                            client_host |-> host]) = registry.ip

\* C32 witness: get_ip has returned for a request with both headers, the
\* forwarded-for one holding a comma and differing from the other.
C32_Witness ==
    /\ registry.pc = "returned"
    /\ {"cf-connecting-ip", "x-forwarded-for"} \subseteq DOMAIN registry.request.headers
    /\ registry.request.headers["x-forwarded-for"] = <<"1", ",">>
    /\ registry.request.headers["cf-connecting-ip"] = <<"1", "1">>
    /\ registry.ip = <<"1", "1">>

====
